---- MODULE Spec2Model ----
(***************************************************************************)
(* A model of the AI layer and the command line of sparql-endpoint-tool:   *)
(*   config.py       AIProvider, AIConfig, the global _config              *)
(*   ai_services.py  OpenAIService, AnthropicService, AIServiceManager,    *)
(*                   the global _ai_manager, get_ai_manager,               *)
(*                   reload_ai_manager                                     *)
(*   chat_endpoints.py  get_ai_status, get_graph_context,                  *)
(*                   create_system_message, extract_sparql_from_response,  *)
(*                   interpret_query, generate_query, chat_conversation    *)
(*   cli.py          main                                                  *)
(*                                                                         *)
(* Python values are modelled as follows.                                  *)
(*   - None of an Optional[str] / Optional[AIProvider] is the string       *)
(*     "None"; an Optional number is <<>> (None) or <<n>> (the number n).  *)
(*   - a text is a sequence of tokens, so that joining, prefixing and the  *)
(*     substring test ("temperature" in str(e)) are computed, not assumed. *)
(*   - a temperature is counted in tenths: 0.1 is 1, 1.0 is 10.            *)
(*   - a dict is a sequence of entries in insertion order.                 *)
(*   - an object is an entry of heap, named by its index; 0 is None.       *)
(***************************************************************************)
EXTENDS Integers, Sequences, FiniteSets, TLC

VARIABLES
    _config,        \* config.py: the global Config instance (its .ai part)
    openai,         \* ai_services.py: the imported openai module, FALSE when the import failed
    anthropic,      \* ai_services.py: the imported anthropic module, FALSE when the import failed
    _ai_manager,    \* ai_services.py: the global manager reference, 0 is None
    heap,           \* the AIServiceManager objects
    pc,             \* per thread: where it stands
    loc,            \* per thread: its local variables
    call,           \* generate_response: the service called and its arguments
    gpc,            \* generate_response: where the call stands
    completion_params, \* OpenAIService.generate_response: the request parameters
    sent,           \* the transport calls made for the call, each with its reply
    outcome,        \* generate_response: what the call returned or raised
    response,       \* extract_sparql_from_response: the text it is given
    extracted,      \* extract_sparql_from_response: what it returned or raised
    reextracted,    \* the same for the returned query put back into a fenced block
    graph,          \* create_system_message: the graph it is given
    system_message, \* create_system_message: the message it returned
    cli             \* cli.main: one invocation of the command

regvars == <<_config, openai, anthropic, _ai_manager, heap, pc, loc>>

genvars == <<call, gpc, completion_params, sent, outcome>>

toolvars == <<response, extracted, reextracted, graph, system_message, cli>>

vars == <<regvars, genvars, toolvars>>

-----------------------------------------------------------------------------
(* config.py *)

None == "None"

OPENAI == "openai"

ANTHROPIC == "anthropic"

AIProvider == {OPENAI, ANTHROPIC}

\* the api keys a configuration can hold: unset, set to the empty string, set
ApiKeys == {None, "", "sk"}

\* Python truthiness of an Optional[str]
Truthy(s) == s # None /\ s # ""

\* AIConfig, restricted to the fields the AI layer reads
AIConfig ==
    [enabled : BOOLEAN,
     default_provider : AIProvider,
     openai_api_key : ApiKeys,
     openai_model : {"gpt-4"},
     anthropic_api_key : ApiKeys,
     anthropic_model : {"claude-3-5-sonnet-20241022"}]

\* AIConfig() with nothing in the file and nothing in the environment
DefaultAIConfig ==
    [enabled |-> TRUE,
     default_provider |-> ANTHROPIC,
     openai_api_key |-> None,
     openai_model |-> "gpt-4",
     anthropic_api_key |-> None,
     anthropic_model |-> "claude-3-5-sonnet-20241022"]

-----------------------------------------------------------------------------
(* ai_services.py: the service objects *)

OpenAIService(api_key, model) ==
    [class |-> "OpenAIService", api_key |-> api_key, model |-> model]

AnthropicService(api_key, model) ==
    [class |-> "AnthropicService", api_key |-> api_key, model |-> model]

\* OpenAIService.is_available / AnthropicService.is_available
is_available(service) ==
    /\ IF service.class = "OpenAIService" THEN openai ELSE anthropic
    /\ service.api_key # None

-----------------------------------------------------------------------------
(* dicts in insertion order: a sequence of [key, value] entries *)

Keys(d) == {d[i].key : i \in 1..Len(d)}

Get(d, k) == d[CHOOSE i \in 1..Len(d) : d[i].key = k].value

\* d[k] = v: a new key goes to the end, an old key keeps its place
Put(d, k, v) ==
    IF k \in Keys(d)
    THEN [i \in 1..Len(d) |-> IF d[i].key = k THEN [key |-> k, value |-> v] ELSE d[i]]
    ELSE Append(d, [key |-> k, value |-> v])

-----------------------------------------------------------------------------
(* ai_services.py: AIServiceManager *)

Threads == {"t1", "t2"}

MainThread == "t1"

Ids == 1..(Cardinality(Threads) + 1)

FreeObject == [live |-> FALSE, config |-> DefaultAIConfig, services |-> <<>>]

\* AIServiceManager.__init__ up to the call of _initialize_services
NewManager(config) == [live |-> TRUE, config |-> config, services |-> <<>>]

\* _initialize_services, the OpenAI part: the constructor raises ImportError
\* when the package is missing, and the except clause leaves the provider out
InitOpenAI(m) ==
    IF Truthy(m.config.openai_api_key) /\ openai
    THEN [m EXCEPT !.services =
            Put(@, OPENAI, OpenAIService(m.config.openai_api_key, m.config.openai_model))]
    ELSE m

\* _initialize_services, the Anthropic part
InitAnthropic(m) ==
    IF Truthy(m.config.anthropic_api_key) /\ anthropic
    THEN [m EXCEPT !.services =
            Put(@, ANTHROPIC, AnthropicService(m.config.anthropic_api_key, m.config.anthropic_model))]
    ELSE m

\* the outcome of a call: none yet, a returned value or a raised exception
NoReturn == [kind |-> "none"]

Return(v) == [kind |-> "return", value |-> v]

Raise(msg) == [kind |-> "raise", message |-> msg]

NoServicesMessage == <<"No", "AI", "services", "available.", "Please", "configure", "API", "keys.">>

\* get_service with the default tried before the requested provider
get_service_default_first(m, provider) ==
    IF m.config.default_provider \in Keys(m.services)
    THEN Return(Get(m.services, m.config.default_provider))
    ELSE IF provider # None /\ provider \in Keys(m.services)
    THEN Return(Get(m.services, provider))
    ELSE IF m.services # <<>>
    THEN Return(m.services[1].value)
    ELSE Raise(NoServicesMessage)

\* get_service without the default step
get_service_no_default(m, provider) ==
    IF provider # None /\ provider \in Keys(m.services)
    THEN Return(Get(m.services, provider))
    ELSE IF m.services # <<>>
    THEN Return(m.services[1].value)
    ELSE Raise(NoServicesMessage)

\* get_service returning None on an empty registry: next(iter(...), None)
get_service_none_on_empty(m, provider) ==
    IF provider # None /\ provider \in Keys(m.services)
    THEN Return(Get(m.services, provider))
    ELSE IF m.config.default_provider \in Keys(m.services)
    THEN Return(Get(m.services, m.config.default_provider))
    ELSE IF m.services # <<>>
    THEN Return(m.services[1].value)
    ELSE Return(None)

\* AIServiceManager.get_service
get_service(m, provider) ==
    IF provider # None /\ provider \in Keys(m.services)
    THEN Return(Get(m.services, provider))
    ELSE IF m.config.default_provider \in Keys(m.services)
    THEN Return(Get(m.services, m.config.default_provider))
    ELSE IF m.services # <<>>
    THEN Return(m.services[1].value)
    ELSE Raise(NoServicesMessage)

\* AIServiceManager.get_available_providers
get_available_providers(m) ==
    SelectSeq([i \in 1..Len(m.services) |-> m.services[i].key],
              LAMBDA k : is_available(Get(m.services, k)))

\* AIServiceManager.is_enabled
is_enabled(m) == m.config.enabled /\ Len(m.services) > 0

-----------------------------------------------------------------------------
(* the heap: objects nothing refers to are reclaimed *)

Referenced(g, l) == ({g} \cup {l[t].mgr : t \in Threads}) \ {0}

Collect(h, g, l) == [i \in Ids |-> IF i \in Referenced(g, l) THEN h[i] ELSE FreeObject]

NewId(h) == CHOOSE i \in Ids : ~h[i].live /\ \A j \in Ids : j < i => h[j].live

IdleLocals ==
    [op |-> "none", mgr |-> 0, provider |-> None, before |-> <<>>, ret |-> NoReturn,
     request |-> [kind |-> "none"]]

-----------------------------------------------------------------------------
(* The threads.  Each runs one call at a time:                             *)
(*   get_ai_manager()            idle -> [init_openai -> init_anthropic    *)
(*                                -> assign -> return] -> have_mgr         *)
(*   reload_ai_manager(config)   idle -> init_openai -> ... -> have_mgr    *)
(*   manager.get_service(p)      have_mgr -> resolved                      *)
(*   manager.is_enabled()        have_mgr -> checked                       *)
(*   get_ai_status()             idle -> status -> (get_ai_manager)        *)
(*                                -> have_mgr -> reported                  *)
(* _config is loaded once by get_config() and nothing in the AI layer      *)
(* reloads it; reload_ai_manager takes its configuration as an argument.   *)
(***************************************************************************)

Update(t, h, g, pcv, l) ==
    /\ pc' = [pc EXCEPT ![t] = pcv]
    /\ loc' = [loc EXCEPT ![t] = l]
    /\ _ai_manager' = g
    /\ heap' = Collect(h, g, [loc EXCEPT ![t] = l])
    /\ UNCHANGED <<_config, openai, anthropic>>
    /\ UNCHANGED genvars
    /\ UNCHANGED toolvars

\* get_ai_manager(): the test of the global, and on None the start of
\* AIServiceManager(get_config())
GetAiManager(t) ==
    /\ pc[t] \in {"idle", "status", "endpoint"}
    /\ LET op == IF pc[t] = "idle" THEN "get" ELSE loc[t].op
       IN IF _ai_manager # 0
          THEN Update(t, heap, _ai_manager, "have_mgr",
                      [loc[t] EXCEPT !.op = op, !.mgr = _ai_manager])
          ELSE LET id == NewId(heap)
               IN Update(t, [heap EXCEPT ![id] = NewManager(_config)], _ai_manager,
                         "init_openai", [loc[t] EXCEPT !.op = op, !.mgr = id])

\* reload_ai_manager binding the global before _initialize_services has run
ReloadPublishEarly(t, config) ==
    /\ pc[t] = "idle"
    /\ LET id == NewId(heap)
       IN Update(t, [heap EXCEPT ![id] = NewManager(config)], id,
                 "init_openai", [loc[t] EXCEPT !.op = "reload", !.mgr = id])

\* reload_ai_manager(config): the start of AIServiceManager(config)
ReloadAiManager(t, config) ==
    /\ pc[t] = "idle"
    /\ LET id == NewId(heap)
       IN Update(t, [heap EXCEPT ![id] = NewManager(config)], _ai_manager,
                 "init_openai", [loc[t] EXCEPT !.op = "reload", !.mgr = id])

\* _initialize_services: the OpenAI block
InitializeOpenAI(t) ==
    /\ pc[t] = "init_openai"
    /\ Update(t, [heap EXCEPT ![loc[t].mgr] = InitOpenAI(@)], _ai_manager,
              "init_anthropic", loc[t])

\* _initialize_services: the Anthropic block
InitializeAnthropic(t) ==
    /\ pc[t] = "init_anthropic"
    /\ Update(t, [heap EXCEPT ![loc[t].mgr] = InitAnthropic(@)], _ai_manager,
              "assign", loc[t])

\* _ai_manager = AIServiceManager(config)
AssignManager(t) ==
    /\ pc[t] = "assign"
    /\ Update(t, heap, loc[t].mgr, "return", loc[t])

\* return _ai_manager
ReturnManager(t) ==
    /\ pc[t] = "return"
    /\ Update(t, heap, _ai_manager, "have_mgr", [loc[t] EXCEPT !.mgr = _ai_manager])

\* manager.get_service(provider) on the manager the thread holds
GetService(t, provider) ==
    /\ pc[t] = "have_mgr"
    /\ loc[t].op # "status"
    /\ Update(t, heap, _ai_manager, "resolved",
              [loc[t] EXCEPT !.provider = provider,
                             !.before = heap[loc[t].mgr].services,
                             !.ret = get_service(heap[loc[t].mgr], provider)])

\* manager.is_enabled() on the manager the thread holds
IsEnabled(t) ==
    /\ pc[t] = "have_mgr"
    /\ loc[t].op # "status"
    /\ Update(t, heap, _ai_manager, "checked",
              [loc[t] EXCEPT !.ret = Return(is_enabled(heap[loc[t].mgr]))])

\* get_ai_status(), up to the call of get_ai_manager
StatusDisabled ==
    [enabled |-> FALSE, providers |-> <<>>, default_provider |-> None,
     message |-> <<"AI", "features", "are", "disabled">>]

GetAiStatus(t) ==
    /\ pc[t] = "idle"
    /\ IF ~_config.enabled
       THEN Update(t, heap, _ai_manager, "reported",
                   [loc[t] EXCEPT !.op = "status", !.ret = Return(StatusDisabled)])
       ELSE Update(t, heap, _ai_manager, "status", [loc[t] EXCEPT !.op = "status"])

\* get_ai_status(), from get_available_providers to the return
StatusEnabled(m) ==
    LET available_providers == get_available_providers(m)
    IN [enabled |-> TRUE, providers |-> available_providers,
        default_provider |-> _config.default_provider,
        message |-> <<Len(available_providers), "AI", "provider(s)", "available">>]

StatusReport(t) ==
    /\ pc[t] = "have_mgr"
    /\ loc[t].op = "status"
    /\ Update(t, heap, _ai_manager, "reported",
              [loc[t] EXCEPT !.ret = Return(StatusEnabled(heap[loc[t].mgr]))])

\* the caller returns and drops what it held
Finish(t) ==
    /\ pc[t] \in {"have_mgr", "resolved", "checked", "reported"}
    /\ loc[t].op # "status" \/ pc[t] = "reported"
    /\ Update(t, heap, _ai_manager, "idle", IdleLocals)

\* no generate_response call is running
GenIdle ==
    /\ call = [service |-> "None"]
    /\ gpc = "idle"
    /\ completion_params = [model |-> "None"]
    /\ sent = <<>>
    /\ outcome = NoReturn

\* nothing has been extracted, built or invoked
ToolIdle ==
    /\ response = <<>>
    /\ extracted = NoReturn
    /\ reextracted = NoReturn
    /\ graph = [triples |-> <<>>, namespaces |-> <<>>]
    /\ system_message = NoReturn
    /\ cli = [pc |-> "idle"]

Init ==
    /\ GenIdle
    /\ ToolIdle
    /\ _config \in AIConfig
    /\ openai \in BOOLEAN
    /\ anthropic \in BOOLEAN
    /\ _ai_manager = 0
    /\ heap = [i \in Ids |-> FreeObject]
    /\ pc = [t \in Threads |-> "idle"]
    /\ loc = [t \in Threads |-> IdleLocals]

Step(t, configs) ==
    \/ GetAiManager(t)
    \/ \E config \in configs : ReloadAiManager(t, config)
    \/ InitializeOpenAI(t)
    \/ InitializeAnthropic(t)
    \/ AssignManager(t)
    \/ ReturnManager(t)
    \/ \E provider \in AIProvider \cup {None} : GetService(t, provider)
    \/ IsEnabled(t)
    \/ GetAiStatus(t)
    \/ StatusReport(t)
    \/ Finish(t)

\* one caller at a time, every configuration
Next == Step(MainThread, AIConfig)

Spec == Init /\ [][Next]_vars

-----------------------------------------------------------------------------
(* Concurrent callers: both threads run, over the configurations that      *)
(* differ in which api keys are set (what decides the service map).        *)

KeyConfigs ==
    {c \in AIConfig : /\ c.enabled
                      /\ c.default_provider = ANTHROPIC
                      /\ c.openai_api_key # ""
                      /\ c.anthropic_api_key # ""}

InitReload ==
    /\ Init
    /\ _config \in KeyConfigs

NextReload == \E t \in Threads : Step(t, KeyConfigs)

SpecReload == InitReload /\ [][NextReload]_vars

-----------------------------------------------------------------------------
(* ai_services.py: OpenAIService.generate_response and                     *)
(* AnthropicService.generate_response, against a transport that may return *)
(* or raise anything on each call.                                         *)

\* the longest message sequence a call is given
MaxMsgs == 3

Roles == {"system", "user", "assistant"}

\* message texts: the empty string and two one-token texts
Contents == {<<>>, <<"a">>, <<"b">>}

\* ChatMessage / ChatMessage.to_dict
ChatMessage == [role : Roles, content : Contents]

MessageSeqs == UNION {[1..n -> ChatMessage] : n \in 0..MaxMsgs}

\* Optional values: None and a present value
NoneOpt == <<>>

Some(x) == <<x>>

\* max_tokens arguments: None, 0 and a positive count
MaxTokensArgs == {NoneOpt, Some(0), Some(5)}

\* temperature arguments in tenths: None, 0.0, 0.1, 0.7 and 1.0
TemperatureArgs == {NoneOpt, Some(0), Some(1), Some(7), Some(10)}

\* 0.1, the temperature used when the argument is falsy
DefaultTemperature == 1

\* 1.0, the temperature OpenAIService leaves out of the request
NeutralTemperature == 10

\* the max_tokens AnthropicService uses when the argument is falsy
DefaultMaxTokens == 2000

\* Python's `x or d` on an Optional number: None and 0 are both falsy
OrDefault(x, d) == IF x = NoneOpt \/ x = Some(0) THEN d ELSE x[1]

TheOpenAIService == OpenAIService("sk", "gpt-4")

TheAnthropicService == AnthropicService("sk", "claude-3-5-sonnet-20241022")

\* what the transport can answer: a response whose first choice / content
\* block holds None, "" or a text, a response with no choice at all, or an
\* exception whose text mentions the temperature or does not
TemperatureError == <<"Unsupported", "parameter:", "temperature">>

OtherError == <<"Rate", "limit", "reached">>

Replies ==
    {[kind |-> "ok", choices |-> c] :
        c \in {<<>>, <<NoneOpt>>, <<Some(<<>>)>>, <<Some(<<"SELECT">>)>>}}
    \cup {[kind |-> "error", text |-> e] : e \in {TemperatureError, OtherError}}

\* `word in text`
Contains(text, word) == \E i \in 1..Len(text) : text[i] = word

\* OpenAIService: completion_params as built before the first call
OpenAIParams(service, messages, max_tokens, temperature) ==
    LET temp_value == OrDefault(temperature, DefaultTemperature)
    IN [model |-> service.model,
        messages |-> messages,
        max_completion_tokens |->
            IF max_tokens # NoneOpt /\ max_tokens # Some(0) THEN max_tokens ELSE NoneOpt,
        temperature |->
            IF temp_value # NeutralTemperature THEN Some(temp_value) ELSE NoneOpt]

\* the retry test with the temperature field not looked at
ShouldRetryOnText(error, params) == Contains(error, "temperature")

\* "temperature" in str(temp_error) and "temperature" in completion_params
ShouldRetry(error, params) ==
    Contains(error, "temperature") /\ params.temperature # NoneOpt

\* the retry request built anew from the model and the messages only
RetryParamsRebuilt(params) ==
    [params EXCEPT !.temperature = NoneOpt, !.max_completion_tokens = NoneOpt]

\* del completion_params["temperature"]
RetryParams(params) == [params EXCEPT !.temperature = NoneOpt]

IndexErrorText == <<"list", "index", "out", "of", "range">>

\* response.choices[0].message.content / response.content[0].text, or the
\* exception the transport or the indexing raised
Extract(reply) ==
    IF reply.kind = "error" THEN Raise(reply.text)
    ELSE IF reply.choices = <<>> THEN Raise(IndexErrorText)
    ELSE Return(reply.choices[1])

\* raise Exception(f"OpenAI API error: {str(e)}") / f"Anthropic API error: ..."
Wrap(service, r) ==
    IF r.kind = "raise"
    THEN Raise((IF service.class = "OpenAIService"
                THEN <<"OpenAI", "API", "error:">>
                ELSE <<"Anthropic", "API", "error:">>) \o r.message)
    ELSE r

\* "\n\n".join(texts)
RECURSIVE Join(_)
Join(texts) ==
    IF texts = <<>> THEN <<>>
    ELSE IF Len(texts) = 1 THEN texts[1]
    ELSE texts[1] \o <<"\n", "\n">> \o Join(Tail(texts))

\* system_content taken from the first system message alone
SystemContentFirstOnly(messages) ==
    LET system_messages == SelectSeq(messages, LAMBDA msg : msg.role = "system")
    IN IF system_messages # <<>>
       THEN Some(system_messages[1].content)
       ELSE NoneOpt

\* AnthropicService: system_content
SystemContent(messages) ==
    LET system_messages == SelectSeq(messages, LAMBDA msg : msg.role = "system")
    IN IF system_messages # <<>>
       THEN Some(Join([i \in 1..Len(system_messages) |-> system_messages[i].content]))
       ELSE NoneOpt

\* AnthropicService: kwargs
AnthropicKwargs(service, messages, max_tokens, temperature) ==
    LET user_messages == SelectSeq(messages, LAMBDA msg : msg.role # "system")
        system_content == SystemContent(messages)
    IN [model |-> service.model,
        messages |-> [i \in 1..Len(user_messages) |->
                        [role |-> user_messages[i].role, content |-> user_messages[i].content]],
        max_tokens |-> OrDefault(max_tokens, DefaultMaxTokens),
        temperature |-> OrDefault(temperature, DefaultTemperature),
        system |-> IF system_content # NoneOpt /\ system_content # Some(<<>>)
                   THEN system_content ELSE NoneOpt]

\* service.generate_response(messages, max_tokens, temperature) is called
GenerateResponse(service, messages, max_tokens, temperature) ==
    /\ gpc = "idle"
    /\ call' = [service |-> service, messages |-> messages,
                max_tokens |-> max_tokens, temperature |-> temperature]
    /\ gpc' = "called"
    /\ completion_params' = [model |-> "None"]
    /\ sent' = <<>>
    /\ outcome' = NoReturn
    /\ UNCHANGED regvars
    /\ UNCHANGED toolvars

\* OpenAIService: the parameters are built and the first
\* client.chat.completions.create is awaited
OpenAIFirstCall(reply) ==
    /\ gpc = "called"
    /\ call.service.class = "OpenAIService"
    /\ LET params == OpenAIParams(call.service, call.messages, call.max_tokens, call.temperature)
       IN /\ sent' = <<[request |-> params, reply |-> reply]>>
          /\ IF reply.kind = "error" /\ ShouldRetry(reply.text, params)
             THEN /\ completion_params' = RetryParams(params)
                  /\ gpc' = "retry"
                  /\ outcome' = NoReturn
             ELSE /\ completion_params' = params
                  /\ gpc' = "done"
                  /\ outcome' = Wrap(call.service, Extract(reply))
    /\ UNCHANGED <<call, regvars>>
    /\ UNCHANGED toolvars

\* OpenAIService: the second client.chat.completions.create, in the handler
OpenAIRetry(reply) ==
    /\ gpc = "retry"
    /\ sent' = Append(sent, [request |-> completion_params, reply |-> reply])
    /\ gpc' = "done"
    /\ outcome' = Wrap(call.service, Extract(reply))
    /\ UNCHANGED <<call, completion_params, regvars>>
    /\ UNCHANGED toolvars

\* AnthropicService: kwargs are built and client.messages.create is awaited
AnthropicCall(reply) ==
    /\ gpc = "called"
    /\ call.service.class = "AnthropicService"
    /\ sent' = <<[request |-> AnthropicKwargs(call.service, call.messages,
                                              call.max_tokens, call.temperature),
                  reply |-> reply]>>
    /\ gpc' = "done"
    /\ outcome' = Wrap(call.service, Extract(reply))
    /\ UNCHANGED <<call, completion_params, regvars>>
    /\ UNCHANGED toolvars

\* the caller has its text or its exception; the call's frame is gone
GenerateReturn ==
    /\ gpc = "done"
    /\ call' = [service |-> "None"]
    /\ gpc' = "idle"
    /\ completion_params' = [model |-> "None"]
    /\ sent' = <<>>
    /\ outcome' = NoReturn
    /\ UNCHANGED regvars
    /\ UNCHANGED toolvars

\* no manager is involved: the services are called directly
InitGenerate ==
    /\ GenIdle
    /\ ToolIdle
    /\ _config = DefaultAIConfig
    /\ openai = TRUE
    /\ anthropic = TRUE
    /\ _ai_manager = 0
    /\ heap = [i \in Ids |-> FreeObject]
    /\ pc = [t \in Threads |-> "idle"]
    /\ loc = [t \in Threads |-> IdleLocals]

\* a caller calls one of the two services with some arguments
CallService ==
    /\ gpc = "idle"
    /\ \E service \in {TheOpenAIService, TheAnthropicService}, messages \in MessageSeqs,
          max_tokens \in MaxTokensArgs, temperature \in TemperatureArgs :
          GenerateResponse(service, messages, max_tokens, temperature)

NextGenerate ==
    \/ CallService
    \/ \E reply \in Replies : OpenAIFirstCall(reply)
    \/ \E reply \in Replies : OpenAIRetry(reply)
    \/ \E reply \in Replies : AnthropicCall(reply)
    \/ GenerateReturn

SpecGenerate == InitGenerate /\ [][NextGenerate]_vars

-----------------------------------------------------------------------------
(* chat_endpoints.py: extract_sparql_from_response                         *)
(*                                                                         *)
(* A response text is a sequence of tokens that stand side by side with    *)
(* nothing between them: the fence, the language tag, the line break and   *)
(* words.  A keyword is looked for token by token, so a keyword inside a   *)
(* longer word is not modelled.                                            *)

\* the longest response text tried exhaustively
MaxLen == 6

\* the three backquotes that open and close a code block
FENCE == "fence"

NL == "\n"

\* the query of the documented example, one token
ExampleQuery == "SELECT ?s WHERE { ?s a ?o }"

Tokens == {FENCE, "sparql", NL, "SELECT", "ask", "foo"}

\* str.upper, on the tokens that have lower-case letters
Upper(tok) ==
    CASE tok = "sparql" -> "SPARQL"
      [] tok = "ask" -> "ASK"
      [] tok = "foo" -> "FOO"
      [] tok = "Here:" -> "HERE:"
      [] tok = "Done." -> "DONE."
      [] tok = ExampleQuery -> "SELECT ?S WHERE { ?S A ?O }"
      [] OTHER -> tok

\* the keywords of the validation that occur in an upper-cased token
KeywordsIn(uptok) ==
    CASE uptok = "SELECT ?S WHERE { ?S A ?O }" -> {"SELECT", "WHERE"}
      [] uptok \in {"SELECT", "WHERE", "ASK", "CONSTRUCT", "DESCRIBE"} -> {uptok}
      [] OTHER -> {}

\* a strip that takes one line break from each end and no more
StripOnce(text) ==
    LET front == IF text # <<>> /\ Head(text) = NL THEN Tail(text) ELSE text
    IN IF front # <<>> /\ front[Len(front)] = NL
       THEN SubSeq(front, 1, Len(front) - 1) ELSE front

\* str.strip: the line breaks at both ends go
RECURSIVE Strip(_)
Strip(text) ==
    IF text = <<>> THEN text
    ELSE IF Head(text) = NL THEN Strip(Tail(text))
    ELSE IF text[Len(text)] = NL THEN Strip(SubSeq(text, 1, Len(text) - 1))
    ELSE text

\* sparql_patterns: what a pattern starts with (matched ignoring case), the
\* ways its lazy run of any characters can end, and the number of groups it captures;
\* only the two fenced patterns have a group
EndOfBlock == {[tokens |-> <<NL, FENCE>>, at_end |-> FALSE]}

EndOfRun == {[tokens |-> <<NL, NL>>, at_end |-> FALSE], [tokens |-> <<>>, at_end |-> TRUE]}

sparql_patterns ==
    <<[head |-> <<FENCE, "SPARQL", NL>>, tails |-> EndOfBlock, groups |-> 1],
      [head |-> <<FENCE, NL>>, tails |-> EndOfBlock, groups |-> 1],
      [head |-> <<"SELECT">>, tails |-> EndOfRun, groups |-> 0],
      [head |-> <<"ASK">>, tails |-> EndOfRun, groups |-> 0],
      [head |-> <<"CONSTRUCT">>, tails |-> EndOfRun, groups |-> 0],
      [head |-> <<"DESCRIBE">>, tails |-> EndOfRun, groups |-> 0]>>

\* the tokens stand at position i of the text, ignoring case
MatchesAt(tokens, text, i) ==
    /\ i + Len(tokens) - 1 <= Len(text)
    /\ \A k \in 1..Len(tokens) : Upper(text[i + k - 1]) = tokens[k]

\* one of the endings stands at position e
EndsAt(tails, text, e) ==
    \E tail \in tails :
        /\ MatchesAt(tail.tokens, text, e)
        /\ tail.at_end => e + Len(tail.tokens) = Len(text) + 1

\* the pattern matches from position i: its head stands there and an ending
\* follows somewhere
MatchFrom(pattern, text, i) ==
    /\ MatchesAt(pattern.head, text, i)
    /\ \E e \in (i + Len(pattern.head))..(Len(text) + 1) : EndsAt(pattern.tails, text, e)

\* re.search(pattern, response, re.DOTALL | re.IGNORECASE): the leftmost
\* start, and from it the nearest ending; the run matched and the groups
search(pattern, text) ==
    IF \E i \in 1..Len(text) : MatchFrom(pattern, text, i)
    THEN LET i == CHOOSE a \in 1..Len(text) :
                     /\ MatchFrom(pattern, text, a)
                     /\ \A b \in 1..(a - 1) : ~MatchFrom(pattern, text, b)
             from == i + Len(pattern.head)
             e == CHOOSE a \in from..(Len(text) + 1) :
                     /\ EndsAt(pattern.tails, text, a)
                     /\ \A b \in from..(a - 1) : ~EndsAt(pattern.tails, text, b)
         IN [found |-> TRUE,
             run |-> SubSeq(text, i, e - 1),
             groups |-> IF pattern.groups = 1 THEN <<SubSeq(text, from, e - 1)>> ELSE <<>>]
    ELSE [found |-> FALSE, run |-> <<>>, groups |-> <<>>]

NoSuchGroup == <<"no", "such", "group">>

\* any(keyword in query.upper() for keyword in [...])
LooksLikeSparql(query) == \E k \in 1..Len(query) : KeywordsIn(Upper(query[k])) # {}

\* the for loop over sparql_patterns, from pattern number n on
RECURSIVE ExtractFrom(_, _)
ExtractFrom(n, text) ==
    IF n > Len(sparql_patterns) THEN Return(NoneOpt)
    ELSE LET match == search(sparql_patterns[n], text)
         IN IF ~match.found THEN ExtractFrom(n + 1, text)
            ELSE IF Len(match.groups) < 1 THEN Raise(NoSuchGroup)
            ELSE LET query == Strip(match.groups[1])
                 IN IF LooksLikeSparql(query) THEN Return(Some(query))
                    ELSE ExtractFrom(n + 1, text)

\* extract_sparql_from_response
extract_sparql_from_response(text) == ExtractFrom(1, text)

\* the documented example, and a response with two tagged blocks of which
\* the second holds the query
ExampleResponse == <<"Here:", NL, FENCE, "sparql", NL, ExampleQuery, NL, FENCE, NL, "Done.">>

TwoBlocks == <<FENCE, "sparql", NL, "foo", NL, FENCE, NL, FENCE, "sparql", NL, "SELECT", NL, FENCE>>

\* a tagged block whose query stands between blank lines
PaddedBlock == <<FENCE, "sparql", NL, NL, NL, "SELECT", NL, NL, NL, FENCE>>

Responses ==
    UNION {[1..n -> Tokens] : n \in 0..MaxLen} \cup {ExampleResponse, TwoBlocks, PaddedBlock}

\* the query put back into a fenced block tagged as SPARQL
Refenced(query) == <<FENCE, "sparql", NL>> \o query \o <<NL, FENCE>>

\* a caller extracts from a response
ExtractSparql(text) ==
    /\ response' = text
    /\ extracted' = extract_sparql_from_response(text)
    /\ reextracted' = NoReturn
    /\ UNCHANGED <<graph, system_message, cli, regvars, genvars>>

CallExtract ==
    /\ extracted = NoReturn
    /\ \E text \in Responses : ExtractSparql(text)

\* the caller fences the query it got and extracts again
ExtractAgain ==
    /\ extracted.kind = "return"
    /\ extracted.value # NoneOpt
    /\ reextracted = NoReturn
    /\ reextracted' = extract_sparql_from_response(Refenced(extracted.value[1]))
    /\ UNCHANGED <<response, extracted, graph, system_message, cli, regvars, genvars>>

\* the caller is done with the result
ExtractDone ==
    /\ extracted # NoReturn
    /\ response' = <<>>
    /\ extracted' = NoReturn
    /\ reextracted' = NoReturn
    /\ UNCHANGED <<graph, system_message, cli, regvars, genvars>>

NextExtract == CallExtract \/ ExtractAgain \/ ExtractDone

SpecExtract == InitGenerate /\ [][NextExtract]_vars

-----------------------------------------------------------------------------
(* Resolution: AIServiceManager.get_service *)

Resolved(t) == pc[t] = "resolved"

\* the provider is registered in the registry the call started from
Registered(t, provider) == provider \in Keys(loc[t].before)

DefaultOf(t) == heap[loc[t].mgr].config.default_provider

\* C1: whenever get_service(requested) is called with requested registered,
\* whatever the default provider, it returns the client registered under
\* requested, and that client is registered under no other provider.
C1_ResolutionLaw ==
    \A t \in Threads :
        (Resolved(t) /\ Registered(t, loc[t].provider)) =>
            /\ loc[t].ret = Return(Get(loc[t].before, loc[t].provider))
            /\ \A q \in Keys(loc[t].before) :
                   Get(loc[t].before, q) = loc[t].ret.value => q = loc[t].provider

\* both providers registered, and the one asked for is not the default
C1_Witness ==
    \E t \in Threads :
        /\ Resolved(t)
        /\ Keys(loc[t].before) = AIProvider
        /\ loc[t].provider \in AIProvider
        /\ loc[t].provider # DefaultOf(t)
        /\ loc[t].ret.kind = "return"

\* C2: whenever get_service is called with no provider or an unregistered
\* one, it returns the default provider's client if the default is
\* registered, and otherwise, if anything is registered, the first-registered
\* client, without failing.
C2_ResolutionFallbackLaw ==
    \A t \in Threads :
        (Resolved(t) /\ ~Registered(t, loc[t].provider)) =>
            IF Registered(t, DefaultOf(t))
            THEN loc[t].ret = Return(Get(loc[t].before, DefaultOf(t)))
            ELSE loc[t].before # <<>> => loc[t].ret = Return(loc[t].before[1].value)

\* only Anthropic registered, default OpenAI, nothing requested: the
\* Anthropic client comes back
C2_Witness ==
    \E t \in Threads :
        /\ Resolved(t)
        /\ Keys(loc[t].before) = {ANTHROPIC}
        /\ DefaultOf(t) = OPENAI
        /\ loc[t].provider = None
        /\ loc[t].ret.kind = "return"
        /\ loc[t].ret.value.class = "AnthropicService"

\* C3: whenever get_service is called on an empty registry it raises the
\* no-services error, whatever is requested and whatever the default, and
\* the registry is still empty afterwards.
C3_EmptyRegistryLaw ==
    \A t \in Threads :
        (Resolved(t) /\ loc[t].before = <<>>) =>
            /\ loc[t].ret = Raise(NoServicesMessage)
            /\ heap[loc[t].mgr].services = <<>>

\* an empty registry asked for a provider by name
C3_Witness ==
    \E t \in Threads :
        /\ Resolved(t)
        /\ loc[t].before = <<>>
        /\ loc[t].provider = OPENAI
        /\ loc[t].ret.kind = "raise"

-----------------------------------------------------------------------------
(* Enabled: AIServiceManager.is_enabled and get_ai_status *)

\* C9: whatever reports AI as enabled does so only when the enabled flag is
\* set and at least one client is registered: is_enabled() returning True,
\* and get_ai_status() returning enabled = True.
C9_EnabledInvariant ==
    \A t \in Threads :
        /\ (pc[t] = "checked" /\ loc[t].ret.value) =>
               /\ heap[loc[t].mgr].config.enabled
               /\ heap[loc[t].mgr].services # <<>>
        /\ (pc[t] = "reported" /\ loc[t].ret.value.enabled) =>
               /\ _config.enabled
               /\ heap[loc[t].mgr].services # <<>>

\* C9, the part is_enabled() keeps
C9_IsEnabledOnly ==
    \A t \in Threads :
        (pc[t] = "checked" /\ loc[t].ret.value) =>
            /\ heap[loc[t].mgr].config.enabled
            /\ heap[loc[t].mgr].services # <<>>

-----------------------------------------------------------------------------
(* Reload: get_ai_manager and reload_ai_manager under concurrent callers *)

\* the package is imported and the key is set: the provider is to be registered
Configured(config, provider) ==
    IF provider = OPENAI
    THEN Truthy(config.openai_api_key) /\ openai
    ELSE Truthy(config.anthropic_api_key) /\ anthropic

Complete(m) ==
    /\ m.live
    /\ Keys(m.services) = {provider \in AIProvider : Configured(m.config, provider)}

\* the managers a caller can get at: the global, and what a call returned
Observable ==
    ({_ai_manager} \cup
     {loc[t].mgr : t \in {u \in Threads : pc[u] \in {"have_mgr", "resolved", "checked", "reported"}}})
    \ {0}

ReadersSeeComplete == \A id \in Observable : Complete(heap[id])

GlobalStaysSet == _ai_manager # 0 => _ai_manager' # 0

\* C10: with reload_ai_manager running beside get_ai_manager and get_service
\* callers, every manager a caller can get at has its whole service map
\* (every configured provider inserted), and the global reference, once
\* set, is never None again.
C10_ReloadAtomicity == []ReadersSeeComplete /\ [][GlobalStaysSet]_vars

\* a reload has inserted OpenAI and not yet Anthropic, with both configured,
\* while another thread holds the manager the global names
C10_Witness ==
    \E t \in Threads, u \in Threads :
        /\ t # u
        /\ pc[t] = "init_anthropic"
        /\ loc[t].op = "reload"
        /\ Configured(heap[loc[t].mgr].config, OPENAI)
        /\ Configured(heap[loc[t].mgr].config, ANTHROPIC)
        /\ Keys(heap[loc[t].mgr].services) = {OPENAI}
        /\ pc[u] = "have_mgr"
        /\ loc[u].mgr = _ai_manager
        /\ heap[_ai_manager].config # heap[loc[t].mgr].config

-----------------------------------------------------------------------------
(* OpenAIService.generate_response: the temperature retry *)

OpenAICall == gpc # "idle" /\ call.service.class = "OpenAIService"

AnthropicCalled == gpc # "idle" /\ call.service.class = "AnthropicService"

HasTemperature(request) == request.temperature # NoneOpt

\* the transport has so far behaved as the stub that rejects, with an error
\* naming the temperature, every request that carries one, and answers
\* every other request with a text
RejectsTemperature ==
    \A i \in 1..Len(sent) :
        IF HasTemperature(sent[i].request)
        THEN sent[i].reply = [kind |-> "error", text |-> TemperatureError]
        ELSE sent[i].reply = [kind |-> "ok", choices |-> <<Some(<<"SELECT">>)>>]

\* C4: against a transport that rejects every request carrying a
\* temperature with an error naming it, a call with temperature 0.1 ends
\* with a returned text after exactly two transport calls; the first
\* request carries temperature 0.1, the second carries none and has the
\* same model, messages and max-token parameter.
C4_TemperatureRetry ==
    (OpenAICall /\ gpc = "done" /\ call.temperature = Some(DefaultTemperature)
                /\ RejectsTemperature) =>
        /\ outcome.kind = "return"
        /\ Len(sent) = 2
        /\ sent[1].request.temperature = Some(DefaultTemperature)
        /\ ~HasTemperature(sent[2].request)
        /\ sent[2].request.model = sent[1].request.model
        /\ sent[2].request.messages = sent[1].request.messages
        /\ sent[2].request.messages = call.messages
        /\ sent[2].request.max_completion_tokens = sent[1].request.max_completion_tokens

\* such a call, with a max-token parameter in the request, has returned
C4_Witness ==
    /\ OpenAICall
    /\ gpc = "done"
    /\ call.temperature = Some(DefaultTemperature)
    /\ call.max_tokens = Some(5)
    /\ call.messages # <<>>
    /\ RejectsTemperature
    /\ Len(sent) = 2
    /\ outcome = Return(Some(<<"SELECT">>))

IsError(entry) == entry.reply.kind = "error"

\* the failure that is retried: the error names the temperature and the
\* request carried one
Quirk(entry) ==
    /\ IsError(entry)
    /\ Contains(entry.reply.text, "temperature")
    /\ HasTemperature(entry.request)

\* text ends with cause
EndsWith(text, cause) ==
    /\ Len(text) >= Len(cause)
    /\ SubSeq(text, Len(text) - Len(cause) + 1, Len(text)) = cause

\* C5: an OpenAI call makes at most two transport calls; a second one is
\* made if and only if the first failed with an error naming the
\* temperature on a request that carried one; when the last transport call
\* made failed otherwise (a temperature error on a request without one, any
\* other error, or a failed retry), generate_response raises
\* "OpenAI API error: " followed by that failure's message.
C5_RetryOnlyTemperatureQuirk ==
    OpenAICall =>
        /\ Len(sent) <= 2
        /\ Len(sent) = 2 => Quirk(sent[1])
        /\ (gpc = "done" /\ Quirk(sent[1])) => Len(sent) = 2
        /\ (gpc = "done" /\ IsError(sent[Len(sent)])) =>
               /\ outcome.kind = "raise"
               /\ SubSeq(outcome.message, 1, 3) = <<"OpenAI", "API", "error:">>
               /\ EndsWith(outcome.message, sent[Len(sent)].reply.text)

\* a request without a temperature failed with an error naming the
\* temperature, and the call ended there with the wrapped error
C5_Witness ==
    /\ OpenAICall
    /\ gpc = "done"
    /\ Len(sent) = 1
    /\ ~HasTemperature(sent[1].request)
    /\ sent[1].reply = [kind |-> "error", text |-> TemperatureError]
    /\ outcome = Raise(<<"OpenAI", "API", "error:">> \o TemperatureError)

\* a retry was made and failed too
C5_WitnessRetryFailed ==
    /\ OpenAICall
    /\ gpc = "done"
    /\ Len(sent) = 2
    /\ IsError(sent[2])
    /\ outcome.kind = "raise"

-----------------------------------------------------------------------------
(* generate_response: what a successful call returns *)

\* C6: a generate_response call on a non-empty message sequence, on either
\* service, that returns (rather than raises) returns a text that is
\* neither None nor empty.
C6_NoEmptySuccess ==
    (gpc = "done" /\ call.messages # <<>> /\ outcome.kind = "return") =>
        /\ outcome.value # NoneOpt
        /\ outcome.value # Some(<<>>)

-----------------------------------------------------------------------------
(* AnthropicService.generate_response: the request *)

\* the positions of the messages of the given kind, and the k-th of them
SystemAt(messages) == {i \in 1..Len(messages) : messages[i].role = "system"}

OtherAt(messages) == {i \in 1..Len(messages) : messages[i].role # "system"}

Nth(positions, k) == CHOOSE i \in positions : Cardinality({j \in positions : j < i}) = k - 1

\* text is the texts of the messages at the positions, in order, each two
\* neighbours parted by a blank line: it is read off from its end
RECURSIVE IsBlankLineJoin(_, _, _)
IsBlankLineJoin(text, messages, positions) ==
    IF positions = {} THEN text = <<>>
    ELSE LET last == CHOOSE i \in positions : \A j \in positions : j <= i
             c == messages[last].content
         IN /\ EndsWith(text, c)
            /\ IF positions = {last}
               THEN Len(text) = Len(c)
               ELSE /\ EndsWith(SubSeq(text, 1, Len(text) - Len(c)), <<"\n", "\n">>)
                    /\ IsBlankLineJoin(SubSeq(text, 1, Len(text) - Len(c) - 2),
                                       messages, positions \ {last})

\* the conversation sent is the non-system messages, in their order, unchanged
ConversationKept(request, messages) ==
    /\ Len(request.messages) = Cardinality(OtherAt(messages))
    /\ \A k \in 1..Len(request.messages) :
           request.messages[k] = messages[Nth(OtherAt(messages), k)]
    /\ \A k \in 1..Len(request.messages) : request.messages[k].role # "system"

\* C7 as claimed: the request's system field is the blank-line join of the
\* system messages' contents whenever there is a system message, there is no
\* system field when there is none, and the conversation is the non-system
\* messages in order, unchanged.
C7_SystemFieldAlways ==
    (AnthropicCalled /\ sent # <<>>) =>
        /\ ConversationKept(sent[1].request, call.messages)
        /\ IF SystemAt(call.messages) # {}
           THEN /\ sent[1].request.system # NoneOpt
                /\ IsBlankLineJoin(sent[1].request.system[1], call.messages,
                                   SystemAt(call.messages))
           ELSE sent[1].request.system = NoneOpt

\* C7 as amended: the request has a system field exactly when the
\* blank-line join of the system messages' contents is a non-empty text,
\* and the field is then that join (so there is none when there is no
\* system message, and none when the only system message is empty); the
\* conversation is the non-system messages in order, unchanged.
C7_RequestShaping ==
    (AnthropicCalled /\ sent # <<>>) =>
        /\ ConversationKept(sent[1].request, call.messages)
        /\ IF sent[1].request.system # NoneOpt
           THEN /\ sent[1].request.system[1] # <<>>
                /\ IsBlankLineJoin(sent[1].request.system[1], call.messages,
                                   SystemAt(call.messages))
           ELSE IsBlankLineJoin(<<>>, call.messages, SystemAt(call.messages))

\* a longest message sequence that starts with a non-system message and
\* holds a system message: the request has a system field and the
\* conversation has lost the system messages
C7_Witness ==
    /\ AnthropicCalled
    /\ sent # <<>>
    /\ Len(call.messages) = MaxMsgs
    /\ Cardinality(SystemAt(call.messages)) >= 1
    /\ Cardinality(OtherAt(call.messages)) >= 1
    /\ call.messages[1].role # "system"
    /\ sent[1].request.system # NoneOpt
    /\ Len(sent[1].request.messages) = Len(call.messages) - Cardinality(SystemAt(call.messages))

\* C8: the request's max_tokens is the caller's when one is given and 2000
\* when it is None, and its temperature is the caller's when one is given
\* and 0.1 when it is None, for every given value, 0 and 0.0 included.
C8_ParameterDefaults ==
    (AnthropicCalled /\ sent # <<>>) =>
        /\ sent[1].request.max_tokens =
               IF call.max_tokens = NoneOpt THEN DefaultMaxTokens ELSE call.max_tokens[1]
        /\ sent[1].request.temperature =
               IF call.temperature = NoneOpt THEN DefaultTemperature ELSE call.temperature[1]

-----------------------------------------------------------------------------
(* chat_endpoints.py: get_graph_context and create_system_message          *)
(*                                                                         *)
(* A text is a sequence of tokens; the line break is the token NL, so the  *)
(* lines of a text are what stands between its NL tokens.                  *)

\* the largest graph tried: one triple and one namespace over the limits
MaxTriples == 11

MaxNamespaces == 11

\* `if count >= 10: break`
SampleLimit == 10

\* `namespaces[:10]`
NamespaceLimit == 10

Min(a, b) == IF a <= b THEN a ELSE b

\* a literal whose text has a line break in it, as a multi-line comment has
MultiLine == <<"line one", NL, "line two">>

\* the graph in iteration order: n triples of which number k, if any, has
\* the multi-line literal as object, and m namespace bindings of which
\* number e, if any, has the empty prefix
GraphOf(n, k, m, e) ==
    [triples |-> [i \in 1..n |->
         [s |-> ToString(i), p |-> "p", o |-> IF i = k THEN MultiLine ELSE <<"o">>]],
     namespaces |-> [j \in 1..m |->
         [prefix |-> IF j = e THEN "" ELSE ToString(j), namespace |-> ToString(j)]]]

Graphs ==
    {GraphOf(q[1], q[2], q[3], q[4]) :
        q \in {r \in (0..MaxTriples) \X (0..MaxTriples) \X (0..MaxNamespaces) \X (0..MaxNamespaces) :
                  r[2] <= r[1] /\ r[4] <= r[3]}}

TaskTypes == {"interpret", "generate", "general"}

\* "\n".join(context_parts)
RECURSIVE JoinLines(_)
JoinLines(parts) ==
    IF parts = <<>> THEN <<>>
    ELSE IF Len(parts) = 1 THEN parts[1]
    ELSE parts[1] \o <<NL>> \o JoinLines(Tail(parts))

\* the loop over the graph with no limit on the samples
sample_triples_unlimited(g) ==
    [i \in 1..Len(g.triples) |->
        <<"  ", g.triples[i].s, " ", g.triples[i].p, " ">> \o g.triples[i].o]

\* the loop over the graph that stops after SampleLimit triples
sample_triples(g) ==
    [i \in 1..Min(Len(g.triples), SampleLimit) |->
        <<"  ", g.triples[i].s, " ", g.triples[i].p, " ">> \o g.triples[i].o]

\* the loop over the sliced namespaces: one PREFIX part per non-empty prefix
RECURSIVE PrefixParts(_)
PrefixParts(namespaces) ==
    IF namespaces = <<>> THEN <<>>
    ELSE LET first == Head(namespaces)
         IN (IF first.prefix # ""
             THEN <<<<"  PREFIX ", first.prefix, ": <", first.namespace, ">">>>>
             ELSE <<>>) \o PrefixParts(Tail(namespaces))

\* get_graph_context
get_graph_context(g) ==
    LET header == <<"The RDF graph contains ", ToString(Len(g.triples)), " triples.">>
        samples == sample_triples(g)
        sliced == SubSeq(g.namespaces, 1, Min(Len(g.namespaces), NamespaceLimit))
    IN JoinLines(<<header>>
           \o (IF samples # <<>> THEN <<<<"Sample triples:">>>> \o samples ELSE <<>>)
           \o (IF g.namespaces # <<>>
               THEN <<<<"Available namespaces:">>>> \o PrefixParts(sliced) ELSE <<>>))

\* the text of a template before the graph context
TemplateHead(task_type) ==
    <<CASE task_type = "interpret" -> "You are an expert SPARQL assistant. Your task is to explain SPARQL queries in clear, natural language."
        [] task_type = "generate" -> "You are an expert SPARQL assistant. Your task is to generate SPARQL queries based on natural language descriptions."
        [] OTHER -> "You are an expert SPARQL assistant helping users work with RDF data and SPARQL queries.",
      NL, NL, "Graph Context:", NL>>

\* the text of a template after the graph context: a blank line, the
\* numbered guidance and the closing sentence
TemplateTail(task_type) ==
    <<NL, NL,
      CASE task_type = "interpret" -> "When explaining a query:"
        [] task_type = "generate" -> "When generating queries:"
        [] OTHER -> "You can help with:",
      NL, "1.", NL, "2.", NL, "3.", NL, "4.", NL>>
    \o (IF task_type = "interpret" THEN <<>> ELSE <<"5.", NL>>)
    \o <<NL,
         CASE task_type = "interpret" -> "Be concise but comprehensive in your explanations."
           [] task_type = "generate" -> "Always return valid SPARQL that works with the provided graph structure."
           [] OTHER -> "Always provide practical, accurate assistance focused on SPARQL and RDF concepts.">>

\* create_system_message
create_system_message(g, task_type) ==
    [role |-> "system",
     content |-> TemplateHead(task_type) \o get_graph_context(g) \o TemplateTail(task_type)]

\* a request handler builds the system message for its graph
CreateSystemMessage(g, task_type) ==
    /\ graph' = g
    /\ system_message' = Return(create_system_message(g, task_type))
    /\ UNCHANGED <<response, extracted, reextracted, cli, regvars, genvars>>

CallCreate ==
    /\ system_message = NoReturn
    /\ \E g \in Graphs, task_type \in TaskTypes : CreateSystemMessage(g, task_type)

\* the handler has used the message
CreateDone ==
    /\ system_message # NoReturn
    /\ graph' = [triples |-> <<>>, namespaces |-> <<>>]
    /\ system_message' = NoReturn
    /\ UNCHANGED <<response, extracted, reextracted, cli, regvars, genvars>>

NextContext == CallCreate \/ CreateDone

SpecContext == InitGenerate /\ [][NextContext]_vars

-----------------------------------------------------------------------------
(* cli.py: the command main, run by click                                  *)

\* the most paths given on one command line
MaxFiles == 3

\* the paths a command line can name: one that is not there, a file and a
\* directory
Paths == {"nonexistent.ttl", "data.ttl", "dir"}

exists(path) == path # "nonexistent.ttl"

is_file(path) == path = "data.ttl"

ArgLists == UNION {[1..n -> Paths] : n \in 0..MaxFiles}

\* --format: not given, or a format
Formats == {NoneOpt, Some("turtle")}

\* the exit codes of click: Abort, UsageError, and a command that returned
ExitAbort == 1

ExitUsage == 2

ExitOk == 0

\* click.Path(exists=True) on the first path that is not there: the usage
\* error click prints
BadParameter(path) ==
    <<"Usage: main [OPTIONS] [FILES]...", NL,
      "Error: Invalid value for '[FILES]...': Path '", path, "' ", "does not exist", ".">>

\* the command line is parsed: every FILES argument is converted by
\* click.Path(exists=True) before main is called
CliParse(files, rdf_format) ==
    /\ cli' = IF \E k \in 1..Len(files) : ~exists(files[k])
              THEN LET k == CHOOSE a \in 1..Len(files) :
                                /\ ~exists(files[a])
                                /\ \A b \in 1..(a - 1) : exists(files[b])
                   IN [pc |-> "exited", files |-> files, rdf_format |-> rdf_format,
                       output |-> BadParameter(files[k]), exit_code |-> ExitUsage,
                       SPARQL_FILES |-> NoneOpt, SPARQL_FORMAT |-> NoneOpt,
                       served |-> FALSE]
              ELSE [pc |-> "main", files |-> files, rdf_format |-> rdf_format,
                    output |-> <<>>, exit_code |-> ExitOk,
                    SPARQL_FILES |-> NoneOpt, SPARQL_FORMAT |-> NoneOpt,
                    served |-> FALSE]
    /\ UNCHANGED <<response, extracted, reextracted, graph, system_message, regvars, genvars>>

CliInvoke ==
    /\ cli.pc = "idle"
    /\ \E files \in ArgLists, rdf_format \in Formats : CliParse(files, rdf_format)

\* raise click.Abort() after an error message
Abort(c, message) ==
    [c EXCEPT !.pc = "exited", !.output = message \o <<NL, "Aborted!">>,
              !.exit_code = ExitAbort]

\* the body of main up to the call of uvicorn.run
CliMain ==
    /\ cli.pc = "main"
    /\ cli' =
         IF cli.files = <<>>
         THEN Abort(cli, <<"Error: ", "No RDF files provided">>)
         ELSE IF \E k \in 1..Len(cli.files) : ~exists(cli.files[k]) \/ ~is_file(cli.files[k])
         THEN LET k == CHOOSE a \in 1..Len(cli.files) :
                           /\ ~exists(cli.files[a]) \/ ~is_file(cli.files[a])
                           /\ \A b \in 1..(a - 1) : exists(cli.files[b]) /\ is_file(cli.files[b])
              IN IF ~exists(cli.files[k])
                 THEN Abort(cli, <<"Error: File ", cli.files[k], " ", "does not exist">>)
                 ELSE Abort(cli, <<"Error: ", cli.files[k], " ", "is not a file">>)
         ELSE [cli EXCEPT !.pc = "serving",
                          !.output = <<"Starting SPARQL endpoint", NL, "Server starting">>,
                          !.SPARQL_FILES = Some(cli.files),
                          !.SPARQL_FORMAT = cli.rdf_format,
                          !.served = TRUE]
    /\ UNCHANGED <<response, extracted, reextracted, graph, system_message, regvars, genvars>>

\* uvicorn.run returns when the server is stopped, and main with it
CliServed ==
    /\ cli.pc = "serving"
    /\ cli' = [cli EXCEPT !.pc = "exited"]
    /\ UNCHANGED <<response, extracted, reextracted, graph, system_message, regvars, genvars>>

\* the process is gone
CliExit ==
    /\ cli.pc = "exited"
    /\ cli' = [pc |-> "idle"]
    /\ UNCHANGED <<response, extracted, reextracted, graph, system_message, regvars, genvars>>

NextCli == CliInvoke \/ CliMain \/ CliServed \/ CliExit

SpecCli == InitGenerate /\ [][NextCli]_vars

-----------------------------------------------------------------------------
(* chat_endpoints.py: interpret_query, generate_query, chat_conversation   *)
(*                                                                         *)
(* One handler at a time:                                                  *)
(*   idle -> endpoint -> (get_ai_manager) -> have_mgr                      *)
(*        -> responded                       is_enabled() is false         *)
(*        -> awaiting -> (the service's generate_response) -> responded    *)
(*        -> idle                                                          *)

Kinds == {"interpret", "generate", "chat"}

\* request.message of a chat: one without and one with a word that asks
\* for a query
Messages == {<<"hello">>, <<"show", "people">>}

Requests == [kind : Kinds, provider : AIProvider \cup {None}, message : Messages]

\* the HTTP status codes the handlers raise
ServiceUnavailable == 503

InternalServerError == 500

NotConfigured == "AI features are not configured"

\* HTTPException(status_code, detail)
HTTPException(status_code, detail) == [status_code |-> status_code, detail |-> detail]

\* str(e) of an HTTPException: the status code and the detail
StrHTTPException(e) == <<ToString(e.status_code), ": ", e.detail>>

\* except Exception as e: raise HTTPException(status_code=500, detail=str(e))
Handler(message) == Raise(HTTPException(InternalServerError, message))

\* what the transport can answer to a handler: as before, or the documented
\* response with a fenced query
EndpointReplies == Replies \cup {[kind |-> "ok", choices |-> <<Some(ExampleResponse)>>]}

\* the messages a handler sends: the system message and the user message
RequestMessages(request) ==
    <<create_system_message(GraphOf(0, 0, 0, 0),
                            IF request.kind = "chat" THEN "general" ELSE request.kind),
      [role |-> "user", content |-> request.message]>>

\* what a status query would see on the manager
Observed(m) ==
    [services |-> m.services,
     config |-> m.config,
     enabled |-> is_enabled(m),
     providers |-> get_available_providers(m),
     status |-> IF ~_config.enabled THEN StatusDisabled ELSE StatusEnabled(m)]

\* a request arrives
EndpointStart(t, request) ==
    /\ pc[t] = "idle"
    /\ Update(t, heap, _ai_manager, "endpoint",
              [loc[t] EXCEPT !.op = request.kind, !.provider = request.provider,
                             !.request = request])

\* if not ai_manager.is_enabled(): raise HTTPException(503, ...), which the
\* handler's own `except Exception` catches; else the messages are built
\* and ai_manager.generate_response resolves the service and calls it with
\* the configured max_tokens and temperature
EndpointCheck(t) ==
    /\ pc[t] = "have_mgr"
    /\ loc[t].op \in Kinds
    /\ LET m == heap[loc[t].mgr]
           seen == [loc[t] EXCEPT !.before = Observed(m)]
           service == get_service(m, loc[t].request.provider)
       IN IF ~is_enabled(m)
          THEN Update(t, heap, _ai_manager, "responded",
                      [seen EXCEPT !.ret = Handler(StrHTTPException(
                           HTTPException(ServiceUnavailable, NotConfigured)))])
          ELSE IF service.kind = "raise"
          THEN Update(t, heap, _ai_manager, "responded",
                      [seen EXCEPT !.ret = Handler(service.message)])
          ELSE /\ pc' = [pc EXCEPT ![t] = "awaiting"]
               /\ loc' = [loc EXCEPT ![t] = seen]
               /\ call' = [service |-> service.value,
                           messages |-> RequestMessages(loc[t].request),
                           max_tokens |-> Some(DefaultMaxTokens),
                           temperature |-> Some(DefaultTemperature)]
               /\ gpc' = "called"
               /\ UNCHANGED <<_config, openai, anthropic, _ai_manager, heap>>
               /\ UNCHANGED <<completion_params, sent, outcome>>
               /\ UNCHANGED toolvars

TriggerWords == {"query", "select", "find", "show", "get", "list"}

\* any(keyword in request.message.lower() for keyword in [...])
AsksForQuery(message) == \E k \in 1..Len(message) : message[k] \in TriggerWords

ValidationError == <<"validation", "error", "for", "ChatResponse">>

TypeError == <<"expected", "string", "or", "bytes-like", "object">>

\* the provider a service object talks to
ProviderOf(service) == IF service.class = "OpenAIService" THEN OPENAI ELSE ANTHROPIC

\* the handler from the return of generate_response on: the extractor where
\* the handler calls it, provider_used, and the ChatResponse, whose response
\* field must be a string
Answer(request, default_provider, result) ==
    IF result.kind = "raise" THEN Handler(result.message)
    ELSE LET text == result.value
             extracts == \/ request.kind = "generate"
                         \/ request.kind = "chat" /\ AsksForQuery(request.message)
             suggested_query ==
                 IF ~extracts THEN Return(NoneOpt)
                 ELSE IF text = NoneOpt THEN Raise(TypeError)
                 ELSE extract_sparql_from_response(text[1])
             provider_used ==
                 IF request.provider # None THEN request.provider ELSE default_provider
         IN IF suggested_query.kind = "raise" THEN Handler(suggested_query.message)
            ELSE IF text = NoneOpt THEN Handler(ValidationError)
            ELSE Return([response |-> text[1],
                         suggested_query |-> suggested_query.value,
                         provider_used |-> provider_used])

\* the handler answers, the heap being h when it does
Respond(t, h) ==
    /\ pc[t] = "awaiting"
    /\ gpc = "done"
    /\ pc' = [pc EXCEPT ![t] = "responded"]
    /\ loc' = [loc EXCEPT ![t].ret =
                  Answer(loc[t].request, h[loc[t].mgr].config.default_provider, outcome)]
    /\ heap' = h
    /\ UNCHANGED <<_config, openai, anthropic, _ai_manager>>
    /\ UNCHANGED genvars
    /\ UNCHANGED toolvars

\* a service that failed is taken out of the manager's map
Evicted(h, id, service) ==
    [h EXCEPT ![id].services =
        SelectSeq(@, LAMBDA entry : entry.key # ProviderOf(service))]

\* a handler that drops the provider whose call failed
EndpointRespondEvicting(t) ==
    Respond(t, IF outcome.kind = "raise"
               THEN Evicted(heap, loc[t].mgr, call.service) ELSE heap)

\* the handler answers; nothing of the manager is written
EndpointRespond(t) == Respond(t, heap)

\* the response has gone out
EndpointFinish(t) ==
    /\ pc[t] = "responded"
    /\ pc' = [pc EXCEPT ![t] = "idle"]
    /\ loc' = [loc EXCEPT ![t] = IdleLocals]
    /\ heap' = Collect(heap, _ai_manager, [loc EXCEPT ![t] = IdleLocals])
    /\ call' = [service |-> "None"]
    /\ gpc' = "idle"
    /\ completion_params' = [model |-> "None"]
    /\ sent' = <<>>
    /\ outcome' = NoReturn
    /\ UNCHANGED <<_config, openai, anthropic, _ai_manager>>
    /\ UNCHANGED toolvars

NextEndpoint ==
    \/ \E request \in Requests : EndpointStart(MainThread, request)
    \/ GetAiManager(MainThread)
    \/ InitializeOpenAI(MainThread)
    \/ InitializeAnthropic(MainThread)
    \/ AssignManager(MainThread)
    \/ ReturnManager(MainThread)
    \/ EndpointCheck(MainThread)
    \/ \E reply \in EndpointReplies : OpenAIFirstCall(reply)
    \/ \E reply \in EndpointReplies : OpenAIRetry(reply)
    \/ \E reply \in EndpointReplies : AnthropicCall(reply)
    \/ EndpointRespond(MainThread)
    \/ EndpointFinish(MainThread)

SpecEndpoint == Init /\ [][NextEndpoint]_vars

-----------------------------------------------------------------------------
(* Claims about extract_sparql_from_response *)

\* the text has a fence somewhere
HasFence(text) == \E k \in 1..Len(text) : text[k] = FENCE

\* the SPARQL-tagged fenced blocks of a text: the position of the opening
\* fence and of the line break before the nearest closing fence
TaggedBlocks(text) ==
    {b \in (1..Len(text)) \X (1..Len(text)) :
        /\ b[1] + 3 <= b[2]
        /\ b[2] + 1 <= Len(text)
        /\ text[b[1]] = FENCE
        /\ Upper(text[b[1] + 1]) = "SPARQL"
        /\ text[b[1] + 2] = NL
        /\ text[b[2]] = NL
        /\ text[b[2] + 1] = FENCE
        /\ \A k \in (b[1] + 3)..(b[2] - 1) : ~(text[k] = NL /\ text[k + 1] = FENCE)}

\* the trimmed content of a block
BlockContent(text, b) == Strip(SubSeq(text, b[1] + 3, b[2] - 1))

\* the tagged blocks that hold a query
QueryBlocks(text) == {b \in TaggedBlocks(text) : LooksLikeSparql(BlockContent(text, b))}

\* the function returned a query
ReturnedQuery(result) == result.kind = "return" /\ result.value # NoneOpt

\* C14: every text the extractor returns contains one of the keywords
\* SELECT, WHERE, ASK, CONSTRUCT, DESCRIBE, and a response that has a
\* SPARQL-tagged fenced block holding a query gets back exactly the trimmed
\* content of such a block, wherever bare keywords stand in the text
C14_RulePriority ==
    extracted # NoReturn =>
        /\ ReturnedQuery(extracted) => LooksLikeSparql(extracted.value[1])
        /\ QueryBlocks(response) # {} =>
               \E b \in QueryBlocks(response) :
                   extracted = Return(Some(BlockContent(response, b)))

\* the bare rules in their order, and the first of them that matches
BareRules == SubSeq(sparql_patterns, 3, 6)

FirstBareRun(text) ==
    IF \E n \in 1..Len(BareRules) : search(BareRules[n], text).found
    THEN LET n == CHOOSE a \in 1..Len(BareRules) :
                      /\ search(BareRules[a], text).found
                      /\ \A b \in 1..(a - 1) : ~search(BareRules[b], text).found
         IN Some(Strip(search(BareRules[n], text).run))
    ELSE NoneOpt

\* C15: the extractor never raises, and for a response without a fenced
\* block it returns the trimmed bare run of the first matching rule of
\* SELECT, ASK, CONSTRUCT, DESCRIBE, or the absent result when none matches
C15_TotalOnUnfenced ==
    extracted # NoReturn =>
        /\ extracted.kind # "raise"
        /\ ~HasFence(response) => extracted = Return(FirstBareRun(response))

\* C16: a returned query, put back into a SPARQL-tagged fenced block and
\* extracted again, comes back unchanged
C16_ExtractionIdempotent ==
    reextracted # NoReturn =>
        reextracted = Return(Some(extracted.value[1]))

\* the round trip was made for a query that had to be trimmed
C16_Witness ==
    /\ reextracted # NoReturn
    /\ response = PaddedBlock
    /\ extracted = Return(Some(<<"SELECT">>))

-----------------------------------------------------------------------------
(* Claims about create_system_message *)

\* the lines of a text: what stands between one line break, or the start
\* of the text, and the next line break, or the end of the text
Lines(text) ==
    LET starts == {0} \cup {k \in 1..Len(text) : text[k] = NL}
        ends == (starts \ {0}) \cup {Len(text) + 1}
        Start(n) == CHOOSE a \in starts : Cardinality({c \in starts : c < a}) = n - 1
        End(a) == CHOOSE b \in ends : b > a /\ \A c \in ends : c > a => b <= c
    IN [n \in 1..Cardinality(starts) |-> SubSeq(text, Start(n) + 1, End(Start(n)) - 1)]

\* how many lines of a sequence have a property
Count(lines, P(_)) == Cardinality({k \in 1..Len(lines) : P(lines[k])})

IsHeaderLine(line) ==
    Len(line) = 3 /\ line[1] = "The RDF graph contains " /\ line[3] = " triples."

IsPrefixLine(line) == line # <<>> /\ line[1] = "  PREFIX "

\* the first line of the rendering of a sample triple
IsTripleStart(line) == line # <<>> /\ line[1] = "  "

\* the lines of the sample section: those under the title "Sample triples:"
\* up to the next title or the blank line that ends the context
SampleSection(lines) ==
    IF \E a \in 1..Len(lines) : lines[a] = <<"Sample triples:">>
    THEN LET a == CHOOSE x \in 1..Len(lines) : lines[x] = <<"Sample triples:">>
             IsStop(x) == lines[x] \in {<<"Available namespaces:">>, <<>>}
             b == CHOOSE x \in (a + 1)..Len(lines) :
                      IsStop(x) /\ \A y \in (a + 1)..(x - 1) : ~IsStop(y)
         IN SubSeq(lines, a + 1, b - 1)
    ELSE <<>>

\* the message built for the graph, as lines
BuiltLines == Lines(system_message.value.content)

\* the triples that are sampled
Sampled == SubSeq(graph.triples, 1, Min(Len(graph.triples), SampleLimit))

\* the lines are those of one context: exactly one header line, which
\* states the triple count of the graph, and no PREFIX line for an empty
\* prefix
OneHeaderNoEmptyPrefix(lines) ==
    /\ Count(lines, IsHeaderLine) = 1
    /\ \E k \in 1..Len(lines) :
           lines[k] = <<"The RDF graph contains ", ToString(Len(graph.triples)), " triples.">>
    /\ \A k \in 1..Len(lines) : IsPrefixLine(lines[k]) => lines[k][2] # ""

-----------------------------------------------------------------------------
(* Claims about cli.main *)

\* C17: an invocation with no file, or with a path that does not exist,
\* prints the error "No RDF files provided" or "does not exist", exits
\* with code 1, and neither sets SPARQL_FILES nor starts the server
C17_InputValidation ==
    /\ cli.pc = "exited"
    /\ cli.files = <<>> \/ \E k \in 1..Len(cli.files) : ~exists(cli.files[k])
    => /\ \/ Contains(cli.output, "No RDF files provided")
          \/ Contains(cli.output, "does not exist")
       /\ cli.exit_code = ExitAbort
       /\ cli.SPARQL_FILES = NoneOpt
       /\ ~cli.served

-----------------------------------------------------------------------------
(* Claims about the request handlers *)

\* the handler of the main thread has answered
Responded == pc[MainThread] = "responded"

TheRequest == loc[MainThread].request

TheAnswer == loc[MainThread].ret

SeenBefore == loc[MainThread].before

\* C11: when a request has been answered, whether the provider call
\* succeeded, succeeded after the temperature retry or failed, the
\* manager's provider map and configuration are what they were before the
\* call, and is_enabled(), get_available_providers() and the status report
\* give the same values as before
C11_RegistryUntouched ==
    Responded =>
        /\ Observed(heap[loc[MainThread].mgr]) = SeenBefore
        /\ _ai_manager = loc[MainThread].mgr

\* a request was answered with a failure after the temperature retry
C11_Witness ==
    /\ Responded
    /\ SeenBefore.enabled
    /\ Len(sent) = 2
    /\ TheAnswer.kind = "raise"

\* C12: a request that arrives while AI is not enabled or no provider is
\* usable is answered with HTTP 503 "AI features are not configured", not
\* with the HTTP 500 of a failed provider call, and no provider call is
\* made for it
C12_ConfigurationError ==
    (Responded /\ ~SeenBefore.enabled) =>
        /\ TheAnswer = Raise(HTTPException(ServiceUnavailable, NotConfigured))
        /\ TheAnswer.message.status_code # InternalServerError
        /\ sent = <<>>

\* C18: the provider_used of a successful response names the provider
\* whose client produced the response text
C18_ProviderUsedTruthful ==
    (Responded /\ TheAnswer.kind = "return") =>
        TheAnswer.value.provider_used = ProviderOf(call.service)

====
